---- MODULE Spec2Model ----
(***************************************************************************)
(* Staged-sector allocation of the sector builder: add_piece and its       *)
(* helpers (filecoin-proofs/src/api/sector_builder/helpers/add_piece.rs).  *)
(*                                                                         *)
(* A SectorId is a u64.  It is kept as its 8 bytes, most significant       *)
(* first, so that shifts and additions keep their 64-bit width.            *)
(***************************************************************************)
EXTENDS Integers, Sequences, FiniteSets, TLC

VARIABLES
    staged_state,   \* StagedState: [sector_id_nonce, sectors]
    last,           \* the last add_piece call: inputs, pre-state, collaborator calls, result
    ncalls,         \* number of add_piece calls made so far
    cid_in,         \* input of the identifier derivation under SpecCid
    cid_out,        \* its result
    place_in,       \* input of the placement policy under SpecPlace
    place_out,      \* its result
    history,        \* the keys of the map at the start, and the identifiers
                    \* provisioned since
    kv_store,       \* the key-value store under SpecLoad, and the calls made to it
    load_out,       \* the last load_sector_builder_state call and its result
    race            \* under SpecRace: the two add_piece calls in progress

addVars == <<staged_state, last, ncalls, history>>
cidVars == <<cid_in, cid_out>>
placeVars == <<place_in, place_out>>
loadVars == <<kv_store, load_out>>
raceVars == <<race>>

vars == <<addVars, cidVars, placeVars, loadVars, raceVars>>

-----------------------------------------------------------------------------
(* Bounds of the model *)

\* max_unsealed_bytes_per_sector() of the store's configuration
SectorMax == 2
\* add_piece calls explored from each initial state
MaxCalls == 2
\* characters in a content key under SpecCid
MaxKeyChars == 8
\* candidate sectors handed to the placement policy under SpecPlace
MaxCandidates == 3

-----------------------------------------------------------------------------
(* u64 arithmetic on sector identifiers *)

\* width of SectorId in bytes: the loop reads the bytes l-8..l
IdBytes == 8

ByteBase == 256

ZeroId == [i \in 1..IdBytes |-> 0]

\* sector_id <<= 8 : the top byte is shifted out
Shl8(id) == [i \in 1..IdBytes |-> IF i < IdBytes THEN id[i + 1] ELSE 0]

\* carry into byte i (1 = most significant) when b is added to id
RECURSIVE CarryInto(_, _, _)
CarryInto(id, b, i) ==
    IF i = IdBytes THEN b
    ELSE (id[i + 1] + CarryInto(id, b, i + 1)) \div ByteBase

\* sector_id += b as u64.  A carry out of the top byte is an overflow:
\* a panic when the build checks overflow, a wrap-around when it does not.
AddU64(id, b, overflow_checks) ==
    LET sum == [i \in 1..IdBytes |-> (id[i] + CarryInto(id, b, i)) % ByteBase]
        out == (id[1] + CarryInto(id, b, 1)) \div ByteBase
    IN  IF out > 0 /\ overflow_checks
        THEN [panic |-> TRUE, val |-> id]
        ELSE [panic |-> FALSE, val |-> sum]

-----------------------------------------------------------------------------
(* get_sectorid_from_cid *)

\* error::Result<SectorId> and error::Result<Option<SectorId>>: Ok(id),
\* Ok(None), Err(e), or the panic of an overflow check.  One record shape
\* for all of them; id is read only when tag = "Ok" and some.
Ok(id) == [tag |-> "Ok", err |-> "", some |-> TRUE, id |-> id]
OkNone == [tag |-> "Ok", err |-> "", some |-> FALSE, id |-> ZeroId]
Err(e) == [tag |-> "Err", err |-> e, some |-> FALSE, id |-> ZeroId]
Panic == [tag |-> "Panic", err |-> "overflow", some |-> FALSE, id |-> ZeroId]

\* the loop body for the bytes cid[i..l], starting from sector_id
RECURSIVE CidLoop(_, _, _, _)
CidLoop(cid, i, sector_id, overflow_checks) ==
    IF i > Len(cid) THEN Ok(sector_id)
    ELSE LET r == AddU64(Shl8(sector_id), cid[i], overflow_checks)
         IN  IF r.panic THEN Panic
             ELSE CidLoop(cid, i + 1, r.val, overflow_checks)

\* a faulty variant: the loop reads one byte too few (l-7..l)
GetSectorIdFromCidShortLoop(cid, overflow_checks) ==
    LET l == Len(cid)
    IN  IF l < IdBytes THEN Err("InvalidKey")
        ELSE CidLoop(cid, l - IdBytes + 2, ZeroId, overflow_checks)

\* cid is the key's bytes (cid.as_bytes()), 1-based here
get_sectorid_from_cid(cid, overflow_checks) ==
    LET l == Len(cid)
    IN  IF l < IdBytes THEN Err("InvalidKey")
        ELSE CidLoop(cid, l - IdBytes + 1, ZeroId, overflow_checks)

-----------------------------------------------------------------------------
(* Metadata *)

\* SealStatus; the reason carried by Failed is not read by add_piece
SealStatus == {"Pending", "Sealing", "Sealed", "Failed"}

PieceMetadata(piece_key, num_bytes) ==
    [piece_key |-> piece_key, num_bytes |-> num_bytes]

StagedSectorMetadata(pieces, sector_access, sector_id, seal_status) ==
    [pieces |-> pieces, sector_access |-> sector_access,
     sector_id |-> sector_id, seal_status |-> seal_status]

\* occupancy of a sector: the sum of num_bytes over its pieces
RECURSIVE SumBytes(_, _)
SumBytes(pieces, i) ==
    IF i > Len(pieces) THEN 0 ELSE pieces[i].num_bytes + SumBytes(pieces, i + 1)

sum_piece_bytes(staged_sector) == SumBytes(staged_sector.pieces, 1)

-----------------------------------------------------------------------------
(* compute_destination_sector_id *)

\* a faulty variant: the piece is compared with the capacity, not with what is left
FitsIgnoringOccupancy(staged_sector, max_bytes, num_bytes, overflow_checks) ==
    IF max_bytes >= num_bytes THEN "fits" ELSE "full"

\* a faulty variant: > where the code has >=
FitsStrict(staged_sector, max_bytes, num_bytes, overflow_checks) ==
    LET occ == sum_piece_bytes(staged_sector)
    IN  IF occ > max_bytes
        THEN IF overflow_checks THEN "panic" ELSE "fits"
        ELSE IF max_bytes - occ > num_bytes THEN "fits" ELSE "full"

\* (max_bytes_per_sector - sum_piece_bytes(staged_sector)) >= num_bytes_in_piece,
\* in u64; max_bytes and num_bytes are the two amounts.
\* When the occupancy is above the maximum the subtraction underflows: a
\* panic when the build checks overflow; otherwise it wraps to a value of
\* at least 2^64 - occupancy + max, which is >= any piece of at most max.
Fits(staged_sector, max_bytes, num_bytes, overflow_checks) ==
    LET occ == sum_piece_bytes(staged_sector)
    IN  IF occ > max_bytes
        THEN IF overflow_checks THEN "panic" ELSE "fits"
        ELSE IF max_bytes - occ >= num_bytes THEN "fits" ELSE "full"

\* candidate_sectors.iter().find(..).map(|x| x.sector_id), from position i
RECURSIVE FindFirst(_, _, _, _, _)
FindFirst(candidate_sectors, i, max_bytes, num_bytes_in_piece, overflow_checks) ==
    IF i > Len(candidate_sectors) THEN OkNone
    ELSE LET f == Fits(candidate_sectors[i], max_bytes,
                       num_bytes_in_piece, overflow_checks)
         IN  IF f = "panic" THEN Panic
             ELSE IF f = "fits" THEN Ok(candidate_sectors[i].sector_id)
             ELSE FindFirst(candidate_sectors, i + 1, max_bytes,
                            num_bytes_in_piece, overflow_checks)

\* a faulty variant: the check of the piece against the capacity is left out
ComputeDestinationNoSizeCheck(candidates, max_bytes, num_bytes, overflow_checks) ==
    FindFirst(candidates, 1, max_bytes, num_bytes, overflow_checks)

compute_destination_sector_id(candidates, max_bytes, num_bytes, overflow_checks) ==
    IF num_bytes > max_bytes
    THEN Err("PieceTooLarge")
    ELSE FindFirst(candidates, 1, max_bytes, num_bytes, overflow_checks)

-----------------------------------------------------------------------------
(* provision_new_staged_sector *)

\* what a step of add_piece hands on: the state so far, the collaborator
\* calls made so far, and its result
Step(state, calls, res) == [state |-> state, calls |-> calls, res |-> res]

\* a faulty variant: the earlier counter scheme, the nonce incremented and used
ProvisionWithCounter(state, calls, alloc) ==
    LET sector_id == AddU64(state.sector_id_nonce, 1, FALSE).val
        calls1 == Append(calls, [op |-> "new_staging_sector_access",
                                 sector_id |-> sector_id, access |-> alloc.access,
                                 ok |-> alloc.ok, written |-> 0])
    IN  IF ~alloc.ok
        THEN [state |-> state, calls |-> calls1, res |-> Err("StorageAllocationFailed")]
        ELSE LET meta == StagedSectorMetadata(<<>>, alloc.access, sector_id, "Pending")
                 sectors1 == [k \in DOMAIN state.sectors \cup {meta.sector_id} |->
                                 IF k = meta.sector_id THEN meta
                                 ELSE state.sectors[k]]
             IN  [state |-> [sector_id_nonce |-> sector_id, sectors |-> sectors1],
                  calls |-> calls1, res |-> Ok(sector_id)]

\* a faulty variant: the new sector is never put into the map
ProvisionNoInsert(state, calls, alloc) ==
    LET sector_id == state.sector_id_nonce
        calls1 == Append(calls, [op |-> "new_staging_sector_access",
                                 sector_id |-> sector_id, access |-> alloc.access,
                                 ok |-> alloc.ok, written |-> 0])
    IN  IF ~alloc.ok
        THEN [state |-> state, calls |-> calls1, res |-> Err("StorageAllocationFailed")]
        ELSE [state |-> state, calls |-> calls1, res |-> Ok(sector_id)]

\* a call to the storage manager.  new_staging_sector_access(sector_id)
\* returns access when ok; write_and_preprocess(access, ..) returns
\* written when ok.
Call(op, sector_id, access, ok, written) ==
    [op |-> op, sector_id |-> sector_id, access |-> access, ok |-> ok,
     written |-> written]

\* what new_staging_sector_access answers
AllocOk(access) == [ok |-> TRUE, access |-> access]
AllocErr == [ok |-> FALSE, access |-> <<"none", ZeroId>>]

\* what write_and_preprocess answers
WriteOk(n) == [ok |-> TRUE, n |-> n]
WriteErr == [ok |-> FALSE, n |-> 0]

\* a faulty variant: the new entry keeps the default sector_id field
ProvisionDefaultIdField(state, calls, alloc) ==
    LET sector_id == state.sector_id_nonce
        calls1 == Append(calls, Call("new_staging_sector_access", sector_id,
                                     alloc.access, alloc.ok, 0))
    IN  IF ~alloc.ok THEN Step(state, calls1, Err("StorageAllocationFailed"))
        ELSE LET meta == StagedSectorMetadata(<<>>, alloc.access, ZeroId, "Pending")
                 sectors1 == [k \in DOMAIN state.sectors \cup {sector_id} |->
                                 IF k = sector_id THEN meta ELSE state.sectors[k]]
             IN  Step([state EXCEPT !.sectors = sectors1], calls1, Ok(sector_id))

\* a faulty variant: the sector is put into the map before the access is
\* requested, and stays there when the request fails
ProvisionInsertFirst(state, calls, alloc) ==
    LET sector_id == state.sector_id_nonce
        calls1 == Append(calls, Call("new_staging_sector_access", sector_id,
                                     alloc.access, alloc.ok, 0))
        meta == StagedSectorMetadata(<<>>, alloc.access, sector_id, "Pending")
        sectors1 == [k \in DOMAIN state.sectors \cup {meta.sector_id} |->
                        IF k = meta.sector_id THEN meta ELSE state.sectors[k]]
    IN  Step([state EXCEPT !.sectors = sectors1], calls1,
             IF alloc.ok THEN Ok(sector_id) ELSE Err("StorageAllocationFailed"))

provision_new_staged_sector(state, calls, alloc) ==
    LET sector_id == state.sector_id_nonce
        calls1 == Append(calls, Call("new_staging_sector_access", sector_id,
                                     alloc.access, alloc.ok, 0))
    IN  IF ~alloc.ok THEN Step(state, calls1, Err("StorageAllocationFailed"))
        ELSE LET meta == StagedSectorMetadata(<<>>, alloc.access, sector_id, "Pending")
                 sectors1 == [k \in DOMAIN state.sectors \cup {meta.sector_id} |->
                                 IF k = meta.sector_id THEN meta
                                 ELSE state.sectors[k]]
             IN  Step([state EXCEPT !.sectors = sectors1], calls1, Ok(sector_id))

-----------------------------------------------------------------------------
(* add_piece *)

\* the orders in which sectors.iter() can yield the keys of the map
IterOrders(sectors) ==
    LET n == Cardinality(DOMAIN sectors)
    IN  {o \in [1..n -> DOMAIN sectors] : \A i, j \in 1..n : o[i] = o[j] => i = j}

IsPending(v) == v.seal_status = "Pending"

\* a faulty variant: every sector of the map is a candidate
CandidatesUnfiltered(sectors, order) == [i \in 1..Len(order) |-> sectors[order[i]]]

\* .filter(|(_, v)| v.seal_status == Pending).map(|(_, v)| v.clone()).collect()
Candidates(sectors, order) ==
    SelectSeq([i \in 1..Len(order) |-> sectors[order[i]]], IsPending)

\* a faulty variant: the count write_and_preprocess returns is not compared
WriteAndRecordAnyCount(state, calls, dest_sector_id, piece_key, piece_bytes_len, wr) ==
    IF dest_sector_id \in DOMAIN state.sectors
    THEN LET s == state.sectors[dest_sector_id]
             calls1 == Append(calls, Call("write_and_preprocess", ZeroId,
                                          s.sector_access, wr.ok, wr.n))
         IN  IF ~wr.ok THEN Step(state, calls1, Err("WriteFailed"))
             ELSE Step([state EXCEPT !.sectors[dest_sector_id].pieces =
                           Append(@, PieceMetadata(piece_key, piece_bytes_len))],
                       calls1, Ok(s.sector_id))
    ELSE Step(state, calls, Err("SectorNotFound"))

\* a faulty variant: a failed write is tried a second time
WriteAndRecordRetry(state, calls, dest_sector_id, piece_key, piece_bytes_len, wr) ==
    IF dest_sector_id \in DOMAIN state.sectors
    THEN LET s == state.sectors[dest_sector_id]
             call == Call("write_and_preprocess", ZeroId, s.sector_access, wr.ok, wr.n)
             calls1 == Append(calls, call)
         IN  IF ~wr.ok THEN Step(state, Append(calls1, call), Err("WriteFailed"))
             ELSE IF wr.n # piece_bytes_len
                  THEN Step(state, calls1, Err("IncompleteWrite"))
                  ELSE Step([state EXCEPT !.sectors[dest_sector_id].pieces =
                                Append(@, PieceMetadata(piece_key, piece_bytes_len))],
                            calls1, Ok(s.sector_id))
    ELSE Step(state, calls, Err("SectorNotFound"))

\* lines 45-71: look the destination up, write, compare the count, push
WriteAndRecord(state, calls, dest_sector_id, piece_key, piece_bytes_len, wr) ==
    IF dest_sector_id \in DOMAIN state.sectors
    THEN LET s == state.sectors[dest_sector_id]
             calls1 == Append(calls, Call("write_and_preprocess", ZeroId,
                                          s.sector_access, wr.ok, wr.n))
         IN  IF ~wr.ok THEN Step(state, calls1, Err("WriteFailed"))
             ELSE IF wr.n # piece_bytes_len
                  THEN Step(state, calls1, Err("IncompleteWrite"))
                  ELSE Step([state EXCEPT !.sectors[dest_sector_id].pieces =
                                Append(@, PieceMetadata(piece_key, piece_bytes_len))],
                            calls1, Ok(s.sector_id))
    ELSE Step(state, calls, Err("SectorNotFound"))

\* a faulty variant: a sector is provisioned for every piece
DestinationAlwaysNew(state, opt_dest_sector_id, alloc) ==
    provision_new_staged_sector(state, <<>>, alloc)

\* lines 38-40: use the fitting sector, or provision one
Destination(state, opt_dest_sector_id, alloc) ==
    IF opt_dest_sector_id.some
    THEN Step(state, <<>>, opt_dest_sector_id)
    ELSE provision_new_staged_sector(state, <<>>, alloc)

-----------------------------------------------------------------------------
(* Inputs of add_piece and the collaborators' answers *)

\* content keys, as bytes: "baaaaaaaa" (9 bytes), "aaaaaaaa" and "aaaaaaab"
\* (8 bytes), and "aaaaaaa" (7 bytes).  KeyLong and KeyA end in the same
\* 8 bytes.
KeyLong == <<98, 97, 97, 97, 97, 97, 97, 97, 97>>
KeyA == <<97, 97, 97, 97, 97, 97, 97, 97>>
KeyB == <<97, 97, 97, 97, 97, 97, 97, 98>>
KeyShort == <<97, 97, 97, 97, 97, 97, 97>>

\* KeyA is the key of pieces recorded before the first call modelled
PieceKeys == {KeyLong, KeyB, KeyShort}

\* piece_bytes.len(): up to one byte more than a sector holds
PieceLens == 0..(SectorMax + 1)

\* new_staging_sector_access(sector_id): an error, or a handle for a new
\* staging file of that sector
AllocOutcomes(sector_id) == {AllocErr, AllocOk(<<"staging", sector_id>>)}

\* write_and_preprocess: an error, or the count of bytes written
WriteOutcomes(piece_bytes_len) ==
    {WriteErr}
    \cup {WriteOk(n) : n \in {m \in (piece_bytes_len - 1)..(piece_bytes_len + 1) : m >= 0}}

\* lines 45-71, for every answer of write_and_preprocess
AfterDestination(d, piece_key, piece_bytes_len) ==
    IF d.res.tag # "Ok" THEN {d}
    ELSE {WriteAndRecord(d.state, d.calls, d.res.id, piece_key, piece_bytes_len, wr) :
             wr \in WriteOutcomes(piece_bytes_len)}

\* lines 38-40, for every answer of new_staging_sector_access
AfterPlacement(state, piece_key, piece_bytes_len, opt_dest_sector_id) ==
    IF opt_dest_sector_id.tag # "Ok" THEN {Step(state, <<>>, opt_dest_sector_id)}
    ELSE UNION {AfterDestination(d, piece_key, piece_bytes_len) :
                   d \in {Destination(state, opt_dest_sector_id, alloc) :
                             alloc \in AllocOutcomes(state.sector_id_nonce)}}

\* a faulty variant: the derived identifier is not stored in the nonce
AfterDerivationNonceKept(state, piece_key, piece_bytes_len, id) ==
    IF id.tag # "Ok" THEN {Step(state, <<>>, id)}
    ELSE UNION {AfterPlacement(state, piece_key, piece_bytes_len, opt) :
                   opt \in {compute_destination_sector_id(
                                Candidates(state.sectors, order), SectorMax,
                                piece_bytes_len, overflow_checks) :
                                order \in IterOrders(state.sectors),
                                overflow_checks \in BOOLEAN}}

\* lines 24-36: the nonce is assigned, then the Pending sectors are
\* collected in the map's iteration order and the policy is run
AfterDerivation(state, piece_key, piece_bytes_len, id) ==
    IF id.tag # "Ok" THEN {Step(state, <<>>, id)}
    ELSE LET state1 == [state EXCEPT !.sector_id_nonce = id.id]
             sector_max == SectorMax
         IN  UNION {AfterPlacement(state1, piece_key, piece_bytes_len, opt) :
                       opt \in {compute_destination_sector_id(
                                    Candidates(state1.sectors, order), sector_max,
                                    piece_bytes_len, overflow_checks) :
                                    order \in IterOrders(state1.sectors),
                                    overflow_checks \in BOOLEAN}}

\* the whole call: every way it can go from a state, over the iteration
\* orders of the map, the build profiles and the collaborators' answers
add_piece(state, piece_key, piece_bytes_len) ==
    UNION {AfterDerivation(state, piece_key, piece_bytes_len, id) :
              id \in {get_sectorid_from_cid(piece_key, overflow_checks) :
                         overflow_checks \in BOOLEAN}}

-----------------------------------------------------------------------------
(* Initial states *)

IdOf(piece_key) == get_sectorid_from_cid(piece_key, TRUE).id

\* an identifier handed out by the earlier counter scheme
CounterId == [i \in 1..IdBytes |-> IF i = IdBytes THEN 1 ELSE 0]

\* the handles of the sectors that exist at the start
InitAccess(id) == <<"staged", id>>

InitSector(id, pieces, seal_status) ==
    StagedSectorMetadata(pieces, InitAccess(id), id, seal_status)

\* the sector under the identifier of KeyA and KeyLong: absent, Pending
\* with one byte, Pending and full, or Sealed and full
InitSectorsA ==
    LET id == IdOf(KeyA)
        full == <<PieceMetadata(KeyA, 1), PieceMetadata(KeyB, SectorMax - 1)>>
    IN  {<<>>,
         <<InitSector(id, <<PieceMetadata(KeyA, 1)>>, "Pending")>>,
         <<InitSector(id, full, "Pending")>>,
         <<InitSector(id, full, "Sealed")>>}

\* the sector under the identifier of KeyB: absent, Pending with one byte,
\* or Failed and empty
InitSectorsB ==
    LET id == IdOf(KeyB)
    IN  {<<>>,
         <<InitSector(id, <<PieceMetadata(KeyB, 1)>>, "Pending")>>,
         <<InitSector(id, <<>>, "Failed")>>}

\* a sector of the counter scheme: absent, Sealing and full, or Pending
\* with one byte
InitSectorsC ==
    LET id == CounterId
    IN  {<<>>,
         <<InitSector(id, <<PieceMetadata(KeyA, SectorMax)>>, "Sealing")>>,
         <<InitSector(id, <<PieceMetadata(KeyA, 1)>>, "Pending")>>}

\* the map holding the sectors of a list, each under its sector_id
SectorMapOf(list) ==
    [id \in {list[i].sector_id : i \in 1..Len(list)} |->
        list[CHOOSE i \in 1..Len(list) : list[i].sector_id = id]]

InitStagedStates ==
    {[sector_id_nonce |-> ZeroId, sectors |-> SectorMapOf(a \o b \o c)] :
        a \in InitSectorsA, b \in InitSectorsB, c \in InitSectorsC}

\* before any call
NotRun == [tag |-> "None", err |-> "", some |-> FALSE, id |-> ZeroId]

NoCall(state) ==
    [piece_key |-> <<>>, piece_len |-> 0, pre |-> state, calls |-> <<>>,
     res |-> NotRun]

NoCid == <<>>
NoPlace == [candidates |-> <<>>, max |-> 0, len |-> 0]

\* nothing provisioned yet, from a given state
NoHistory(state) == [start |-> DOMAIN state.sectors, provisioned |-> {}]

\* the identifiers under which a call provisioned a sector: the ones
\* new_staging_sector_access returned a handle for (lines 123-132)
ProvisionedBy(calls) ==
    {calls[i].sector_id :
        i \in {j \in 1..Len(calls) :
                  calls[j].op = "new_staging_sector_access" /\ calls[j].ok}}

\* no key-value store in play, and no load made
NoStore == [store |-> <<>>, calls |-> <<>>]
NoLoad == [prover_id |-> <<>>, pre |-> <<>>,
           res |-> [tag |-> "None", err |-> "", some |-> FALSE,
                    state |-> [sector_id_nonce |-> ZeroId, sectors |-> <<>>]]]

\* the add_piece calls that may run against one StagedState under SpecRace
Procs == {"first", "second"}

\* a call that has not started
IdleCall == [pc |-> "idle", piece_key |-> <<>>, piece_len |-> 0, calls |-> <<>>, res |-> NotRun]

\* no call in progress, and no decision taken while another was pending
NoRace == [procs |-> [p \in Procs |-> IdleCall], overlapped |-> FALSE]

Init ==
    /\ staged_state \in InitStagedStates
    /\ last = NoCall(staged_state)
    /\ ncalls = 0
    /\ cid_in = NoCid
    /\ cid_out = NotRun
    /\ place_in = NoPlace
    /\ place_out = NotRun
    /\ history = NoHistory(staged_state)
    /\ kv_store = NoStore
    /\ load_out = NoLoad
    /\ race = NoRace

\* one serialized add_piece call
AddPiece ==
    /\ ncalls < MaxCalls
    /\ \E piece_key \in PieceKeys, piece_bytes_len \in PieceLens :
          \E out \in add_piece(staged_state, piece_key, piece_bytes_len) :
              /\ staged_state' = out.state
              /\ last' = [piece_key |-> piece_key, piece_len |-> piece_bytes_len,
                          pre |-> staged_state, calls |-> out.calls,
                          res |-> out.res]
              /\ history' = [history EXCEPT
                                !.provisioned = @ \cup ProvisionedBy(out.calls)]
    /\ ncalls' = ncalls + 1
    /\ UNCHANGED <<cidVars, placeVars, loadVars, raceVars>>

Next == AddPiece

Spec == Init /\ [][Next]_vars

-----------------------------------------------------------------------------
(* The identifier derivation alone, over many keys *)

\* characters of a key, as their UTF-8 bytes: NUL, "a", and U+00FF
KeyChars == {<<0>>, <<97>>, <<195, 191>>}

RECURSIVE Flatten(_, _)
Flatten(chars, i) ==
    IF i > Len(chars) THEN <<>> ELSE chars[i] \o Flatten(chars, i + 1)

\* cid.as_bytes() of every string of at most MaxKeyChars such characters
CidKeys ==
    {Flatten(chars, 1) : chars \in UNION {[1..n -> KeyChars] : n \in 0..MaxKeyChars}}

EmptyState == [sector_id_nonce |-> ZeroId, sectors |-> <<>>]

InitCid ==
    /\ cid_in \in CidKeys
    /\ cid_out = NotRun
    /\ staged_state = EmptyState
    /\ last = NoCall(staged_state)
    /\ ncalls = 0
    /\ place_in = NoPlace
    /\ place_out = NotRun
    /\ history = NoHistory(staged_state)
    /\ kv_store = NoStore
    /\ load_out = NoLoad
    /\ race = NoRace

\* one call of get_sectorid_from_cid, under either build profile
DeriveCid ==
    /\ cid_out.tag = "None"
    /\ \E overflow_checks \in BOOLEAN :
          cid_out' = get_sectorid_from_cid(cid_in, overflow_checks)
    /\ UNCHANGED <<addVars, cid_in, placeVars, loadVars, raceVars>>

NextCid == DeriveCid

SpecCid == InitCid /\ [][NextCid]_vars

-----------------------------------------------------------------------------
(* The placement policy alone, over many candidate lists *)

\* the identifier of the candidate at position i of a list
CandidateId(i) == [k \in 1..IdBytes |-> IF k = IdBytes THEN i ELSE 0]

\* piece lists of occupancy 0..max: one piece, or a piece of one byte and
\* another
CandidatePieceLists(max) ==
    {<<>>}
    \cup {<<PieceMetadata(KeyA, n)>> : n \in 1..max}
    \cup {<<PieceMetadata(KeyA, 1), PieceMetadata(KeyB, n)>> : n \in 1..(max - 1)}

\* lists of at most MaxCandidates Pending sectors, none above max
CandidateLists(max) ==
    UNION {{[i \in 1..n |-> StagedSectorMetadata(pl[i], <<"staged", CandidateId(i)>>,
                                                  CandidateId(i), "Pending")] :
               pl \in [1..n -> CandidatePieceLists(max)]} :
           n \in 0..MaxCandidates}

InitPlace ==
    /\ \E max \in 1..SectorMax :
          \E candidates \in CandidateLists(max), len \in 0..(max + 1) :
              place_in = [candidates |-> candidates, max |-> max, len |-> len]
    /\ place_out = NotRun
    /\ staged_state = EmptyState
    /\ last = NoCall(staged_state)
    /\ ncalls = 0
    /\ cid_in = NoCid
    /\ cid_out = NotRun
    /\ history = NoHistory(staged_state)
    /\ kv_store = NoStore
    /\ load_out = NoLoad
    /\ race = NoRace

\* one call of compute_destination_sector_id, under either build profile
Place ==
    /\ place_out.tag = "None"
    /\ \E overflow_checks \in BOOLEAN :
          place_out' = compute_destination_sector_id(
                           place_in.candidates, place_in.max, place_in.len,
                           overflow_checks)
    /\ UNCHANGED <<addVars, cidVars, place_in, loadVars, raceVars>>

NextPlace == Place

SpecPlace == InitPlace /\ [][NextPlace]_vars

-----------------------------------------------------------------------------
(* Vocabulary of the properties *)

Called == last.res.tag # "None"
Succeeded == last.res.tag = "Ok"

PreSectors == last.pre.sectors
PostSectors == staged_state.sectors

Occupancy(sector) == sum_piece_bytes(sector)

IsPrefix(a, b) == Len(a) <= Len(b) /\ \A i \in 1..Len(a) : a[i] = b[i]

\* the last 8 bytes of a key, most significant first
Last8(key) == [i \in 1..IdBytes |-> key[Len(key) - IdBytes + i]]

AllocCalls == {i \in 1..Len(last.calls) : last.calls[i].op = "new_staging_sector_access"}
WriteCalls == {i \in 1..Len(last.calls) : last.calls[i].op = "write_and_preprocess"}

\* the Pending sectors of the pre-state with room for the piece
FittingBefore ==
    {id \in DOMAIN PreSectors :
        /\ PreSectors[id].seal_status = "Pending"
        /\ SectorMax - Occupancy(PreSectors[id]) >= last.piece_len}

\* the sectors whose piece list holds an entry it did not hold before
Gained ==
    {id \in DOMAIN PostSectors :
        /\ PostSectors[id].pieces # <<>>
        /\ id \in DOMAIN PreSectors => PostSectors[id].pieces # PreSectors[id].pieces}

-----------------------------------------------------------------------------
(* C1: every sector of staged_state.sectors has occupancy at most
   max_unsealed_bytes_per_sector, after any sequence of add_piece calls from
   a state where this holds. *)
C1_OccupancyWithinMax ==
    \A id \in DOMAIN PostSectors : Occupancy(PostSectors[id]) <= SectorMax

\* a second call has filled a sector to the byte
C1_Witness ==
    /\ ncalls = MaxCalls
    /\ Succeeded
    /\ last.piece_len > 0
    /\ Occupancy(PostSectors[last.res.id]) = SectorMax

(* C2: a piece longer than the capacity, with a key of at least 8 bytes,
   fails with PieceTooLarge; the sectors map is as before the call and
   no call to the storage manager was made. *)
C2_PieceTooLargeBeforeAnyEffect ==
    (Called /\ Len(last.piece_key) >= IdBytes /\ last.piece_len > SectorMax)
    => /\ last.res = Err("PieceTooLarge")
       /\ PostSectors = PreSectors
       /\ last.calls = <<>>

\* too large a piece, offered to a state with a Pending sector
C2_Witness ==
    /\ Called
    /\ Len(last.piece_key) >= IdBytes
    /\ last.piece_len > SectorMax
    /\ \E id \in DOMAIN PreSectors : PreSectors[id].seal_status = "Pending"

(* C3: for a piece of at most the capacity, the policy returns the
   identifier of the first candidate in list order whose remaining capacity
   is at least the piece length, and Ok(None) exactly when there is none;
   the sector returned never ends above the capacity. *)
C3_FirstFit ==
    (place_out.tag # "None" /\ place_in.len <= place_in.max)
    => LET c == place_in.candidates
           fits == {i \in 1..Len(c) :
                       place_in.max - Occupancy(c[i]) >= place_in.len}
       IN  /\ fits = {} => place_out = OkNone
           /\ fits # {} =>
                 \E i \in fits :
                     /\ \A j \in fits : i <= j
                     /\ place_out = Ok(c[i].sector_id)
                     /\ Occupancy(c[i]) + place_in.len <= place_in.max

\* the first candidate is too full, a later one takes the piece exactly
C3_Witness ==
    /\ place_out.tag = "Ok"
    /\ place_out.some
    /\ Len(place_in.candidates) >= 2
    /\ place_out.id # place_in.candidates[1].sector_id
    /\ \E i \in 1..Len(place_in.candidates) :
          /\ place_in.candidates[i].sector_id = place_out.id
          /\ Occupancy(place_in.candidates[i]) + place_in.len = place_in.max

(* C4: a piece list gains an entry only after write_and_preprocess, on the
   access handle of that sector, has returned the piece's length; when the
   write fails or returns another count, add_piece fails and no piece list
   gains an entry. *)
C4_RecordedOnlyAfterFullWrite ==
    /\ \A id \in Gained :
          /\ WriteCalls # {}
          /\ LET w == last.calls[Len(last.calls)]
             IN  /\ w.op = "write_and_preprocess"
                 /\ w.ok
                 /\ w.written = last.piece_len
                 /\ w.access = PostSectors[id].sector_access
    /\ \A i \in WriteCalls :
          (~last.calls[i].ok \/ last.calls[i].written # last.piece_len)
          => (last.res.tag = "Err" /\ Gained = {})

\* a short write was refused
C4_Witness ==
    /\ Called
    /\ last.piece_len > 0
    /\ \E i \in WriteCalls :
          last.calls[i].ok /\ last.calls[i].written < last.piece_len
    /\ last.res = Err("IncompleteWrite")

(* C5: when provisioning runs under an identifier that is already a key
   of the map, the entry under that key is left as it was: same pieces,
   same access handle, same seal_status. *)
\* the entry as provisioning left it: a successful call has appended the
\* new piece to it afterwards
EntryAfterProvisioning(id) ==
    IF Succeeded /\ last.res.id = id /\ PostSectors[id].pieces # <<>>
    THEN [PostSectors[id] EXCEPT !.pieces = SubSeq(@, 1, Len(@) - 1)]
    ELSE PostSectors[id]

C5_ProvisioningKeepsExistingEntry ==
    \A i \in AllocCalls :
        LET id == last.calls[i].sector_id
        IN  (last.calls[i].ok /\ id \in DOMAIN PreSectors)
            => EntryAfterProvisioning(id) = PreSectors[id]

(* C6: pieces are appended and never removed: every sector that existed
   before a call exists after it under the same identifier, and its earlier
   piece list is a prefix of its piece list. *)
C6_PiecesNeverRemoved ==
    \A id \in DOMAIN PreSectors :
        /\ id \in DOMAIN PostSectors
        /\ IsPrefix(PreSectors[id].pieces, PostSectors[id].pieces)

(* C7: a successful add_piece returns the identifier of one destination
   sector; that sector's piece list is its earlier list with the entry
   {piece_key, num_bytes = length of piece_bytes} appended, and every other
   sector's entry is unchanged. *)
C7_SuccessAppendsOnePiece ==
    Succeeded
    => LET d == last.res.id
           before == IF d \in DOMAIN PreSectors THEN PreSectors[d].pieces ELSE <<>>
       IN  /\ d \in DOMAIN PostSectors
           /\ PostSectors[d].pieces =
                 Append(before, PieceMetadata(last.piece_key, last.piece_len))
           /\ DOMAIN PostSectors = DOMAIN PreSectors \cup {d}
           /\ \A id \in DOMAIN PostSectors \ {d} : PostSectors[id] = PreSectors[id]

(* C8: provisioning happens only on "no fit": when a Pending sector has room
   for the piece, no sector is provisioned, the key set of the map is
   unchanged, and the piece goes to a Pending sector that had room for it;
   new_staging_sector_access is called only when no Pending sector fits. *)
C8_ProvisionOnlyOnNoFit ==
    Called
    => /\ FittingBefore # {}
          => /\ AllocCalls = {}
             /\ DOMAIN PostSectors = DOMAIN PreSectors
             /\ Succeeded => last.res.id \in FittingBefore
             /\ \A i \in WriteCalls :
                   \E id \in FittingBefore :
                       last.calls[i].access = PreSectors[id].sector_access
             /\ Gained \subseteq FittingBefore
       /\ AllocCalls # {} => FittingBefore = {}

\* a piece takes up all that is left of a Pending sector
C8_Witness ==
    /\ Succeeded
    /\ last.piece_len > 0
    /\ last.res.id \in FittingBefore
    /\ Occupancy(PreSectors[last.res.id]) > 0
    /\ Occupancy(PostSectors[last.res.id]) = SectorMax
    /\ last.res.id # Last8(last.piece_key)

(* C9: when no Pending sector fits and both the allocation and the write
   succeed, add_piece returns the identifier made of the last 8 bytes of the
   key, big-endian, and the map holds under it a Pending sector whose piece
   list is exactly the new piece. *)
C9_NoFitProvisionsKeyedSector ==
    (/\ Called
     /\ Len(last.piece_key) >= IdBytes
     /\ last.piece_len <= SectorMax
     /\ FittingBefore = {})
    => /\ Len(last.calls) >= 1
       /\ last.calls[1].op = "new_staging_sector_access"
       /\ (/\ last.calls[1].ok
           /\ \E i \in WriteCalls :
                 last.calls[i].ok /\ last.calls[i].written = last.piece_len)
          => LET id == Last8(last.piece_key)
             IN  /\ last.res = Ok(id)
                 /\ id \in DOMAIN PostSectors
                 /\ PostSectors[id].seal_status = "Pending"
                 /\ PostSectors[id].sector_id = id
                 /\ PostSectors[id].pieces =
                       <<PieceMetadata(last.piece_key, last.piece_len)>>

\* two Pending sectors, neither with room, and a third sector is made
C9_Witness ==
    /\ Succeeded
    /\ FittingBefore = {}
    /\ Cardinality({id \in DOMAIN PreSectors :
                       PreSectors[id].seal_status = "Pending"}) >= 2
    /\ last.res.id \notin DOMAIN PreSectors
    /\ last.res.id = Last8(last.piece_key)
    /\ Len(last.piece_key) > IdBytes

(* C10: for a key of at least 8 bytes get_sectorid_from_cid returns the
   unsigned 64-bit big-endian value of its last 8 bytes, whatever the bytes
   and the build profile; a shorter key fails with InvalidKey. *)
C10_IdIsLastEightBytes ==
    cid_out.tag # "None"
    => IF Len(cid_in) >= IdBytes
       THEN cid_out = Ok(Last8(cid_in))
       ELSE cid_out = Err("InvalidKey")

\* a key of exactly 8 bytes whose first byte has the top bit set
C10_Witness ==
    /\ cid_out.tag = "Ok"
    /\ Len(cid_in) = IdBytes
    /\ cid_in[1] >= 128
    /\ cid_out.id = cid_in


(* C11: after an add_piece call whose key has at least 8 bytes,
   sector_id_nonce is the identifier derived from that key, whether the call
   succeeded or failed later; a call that fails with InvalidKey leaves
   sector_id_nonce and the sectors map as they were. *)
C11_NonceIsLastDerivedId ==
    Called
    => IF Len(last.piece_key) >= IdBytes
       THEN staged_state.sector_id_nonce = Last8(last.piece_key)
       ELSE /\ last.res = Err("InvalidKey")
            /\ staged_state = last.pre

\* the call failed after the derivation and the nonce has moved
C11_Witness ==
    /\ last.res.tag = "Err"
    /\ last.res.err \in {"PieceTooLarge", "StorageAllocationFailed", "IncompleteWrite"}
    /\ staged_state.sector_id_nonce # last.pre.sector_id_nonce
    /\ staged_state.sector_id_nonce = Last8(last.piece_key)


(* C12: starting from an empty sectors map, the keys of
   staged_state.sectors are exactly the identifiers for which provisioning
   completed: no key is removed, none appears without a provisioning. *)
C12_KeysAreProvisionedIds ==
    history.start = {} => DOMAIN PostSectors = history.provisioned

\* from the empty map, two calls have each provisioned a sector
C12_Witness ==
    /\ history.start = {}
    /\ Cardinality(history.provisioned) = 2
    /\ Cardinality(DOMAIN PostSectors) = 2


(* C13: the sector that receives the write_and_preprocess call and the new
   PieceMetadata has seal_status Pending at that moment, whatever mix of
   Pending, Sealing, Sealed and Failed sectors the state holds. *)
\* the sectors written through a handle; a sector keeps its seal_status
\* from the write to the end of the call
SectorsOfAccess(access) ==
    {id \in DOMAIN PostSectors : PostSectors[id].sector_access = access}

PendingAtAppend(id) ==
    /\ PostSectors[id].seal_status = "Pending"
    /\ (id \in DOMAIN PreSectors /\ id \notin ProvisionedBy(last.calls))
       => PreSectors[id].seal_status = "Pending"

C13_AppendOnlyToPending ==
    /\ \A i \in WriteCalls :
          /\ SectorsOfAccess(last.calls[i].access) # {}
          /\ \A id \in SectorsOfAccess(last.calls[i].access) : PendingAtAppend(id)
    /\ \A id \in Gained : PendingAtAppend(id)

\* a piece goes to a Pending sector though a Failed sector has room for it
C13_Witness ==
    /\ Succeeded
    /\ last.res.id \in DOMAIN PreSectors
    /\ AllocCalls = {}
    /\ \E id \in DOMAIN PreSectors :
          /\ PreSectors[id].seal_status = "Failed"
          /\ SectorMax - Occupancy(PreSectors[id]) >= last.piece_len
    /\ \E id \in DOMAIN PreSectors : PreSectors[id].seal_status \in {"Sealing", "Sealed"}


(* C14: ingestion is observably atomic: when add_piece returns an error,
   sector_id_nonce and the sectors map are as they were before the call. *)
C14_FailureLeavesStateUntouched ==
    last.res.tag = "Err" => staged_state = last.pre

(* C15: on an error return the only differences from the pre-call state are
   a possibly changed sector_id_nonce and at most one additional sector,
   Pending and with no pieces; every sector that existed before keeps its
   pieces, access handle and seal_status. *)
C15_FailureChangeIsBounded ==
    last.res.tag = "Err"
    => /\ \A id \in DOMAIN PreSectors :
             id \in DOMAIN PostSectors /\ PostSectors[id] = PreSectors[id]
       /\ Cardinality(DOMAIN PostSectors \ DOMAIN PreSectors) <= 1
       /\ \A id \in DOMAIN PostSectors \ DOMAIN PreSectors :
             /\ PostSectors[id].seal_status = "Pending"
             /\ PostSectors[id].pieces = <<>>


-----------------------------------------------------------------------------
\* load_sector_builder_state: the store, the lookup and the decoding

\* the length of a prover identifier, [u8; 31]
ProverIdBytes == 31

ProverId(b) == [i \in 1..ProverIdBytes |-> IF i = ProverIdBytes THEN b ELSE 0]

ProverIds == {ProverId(0), ProverId(1)}

\* the results of load_sector_builder_state: Ok(Some(state)), Ok(None), Err(e)
LoadSome(state) == [tag |-> "Ok", err |-> "", some |-> TRUE, state |-> state]
LoadNone == [tag |-> "Ok", err |-> "", some |-> FALSE, state |-> EmptyState]
LoadErr(e) == [tag |-> "Err", err |-> e, some |-> FALSE, state |-> EmptyState]

\* a stored value: the encoding of a state, or bytes that are no encoding of one
Encoded(state) == [cbor |-> TRUE, state |-> state]
Malformed == [cbor |-> FALSE, state |-> EmptyState]

\* a faulty variant: a value that does not decode is reported as no state
FromSliceCorruptIsNone(val) == IF val.cbor THEN LoadSome(val.state) ELSE LoadNone

\* serde_cbor::from_slice on a stored value
from_slice(val) == IF val.cbor THEN LoadSome(val.state) ELSE LoadErr("CorruptState")

\* kv_store.get(key): the lookup is logged; an I/O failure is the store's choice
Get(kv, key, get_ok) == [kv EXCEPT !.calls = Append(@, [op |-> "get", key |-> key, ok |-> get_ok])]

\* load_sector_builder_state(kv_store, prover_id): the store after the call,
\* and the result
load_sector_builder_state(kv, prover_id, get_ok) ==
    LET kvAfter == Get(kv, prover_id, get_ok)
    IN  IF ~get_ok
        THEN [kv |-> kvAfter, res |-> LoadErr("StoreFailure")]
        ELSE IF prover_id \in DOMAIN kv.store
        THEN [kv |-> kvAfter, res |-> from_slice(kv.store[prover_id])]
        ELSE [kv |-> kvAfter, res |-> LoadNone]

\* the states a store may hold
StoredStates == {s \in InitStagedStates : Cardinality(DOMAIN s.sectors) <= 1}

StoredValues == {Malformed} \cup {Encoded(s) : s \in StoredStates}

Stores == UNION {[P -> StoredValues] : P \in SUBSET ProverIds}

InitLoad ==
    /\ staged_state = EmptyState
    /\ last = NoCall(EmptyState)
    /\ ncalls = 0
    /\ cid_in = NoCid
    /\ cid_out = NotRun
    /\ place_in = NoPlace
    /\ place_out = NotRun
    /\ history = NoHistory(EmptyState)
    /\ kv_store \in {[store |-> st, calls |-> <<>>] : st \in Stores}
    /\ load_out = NoLoad
    /\ race = NoRace

Load ==
    /\ load_out.res.tag = "None"
    /\ \E prover_id \in ProverIds, get_ok \in BOOLEAN :
          LET r == load_sector_builder_state(kv_store, prover_id, get_ok)
          IN  /\ kv_store' = r.kv
              /\ load_out' = [prover_id |-> prover_id, pre |-> kv_store.store, res |-> r.res]
    /\ UNCHANGED <<addVars, cidVars, placeVars, raceVars>>

NextLoad == Load

SpecLoad == InitLoad /\ [][NextLoad]_vars

Loaded == load_out.res.tag # "None"

\* C16: load_sector_builder_state makes exactly one lookup, under the 31-byte
\* prover identifier, and never writes to the store; a failed lookup is
\* returned as an error; an absent key gives Ok(None); a stored value gives
\* Some(state) when it decodes and an error, never "no state", when it does not.
C16_LoadReportsStoreFaithfully ==
    Loaded
    => /\ Len(kv_store.calls) = 1
       /\ kv_store.calls[1].op = "get"
       /\ kv_store.calls[1].key = load_out.prover_id
       /\ Len(load_out.prover_id) = ProverIdBytes
       /\ kv_store.store = load_out.pre
       /\ IF ~kv_store.calls[1].ok
          THEN load_out.res.tag = "Err"
          ELSE IF load_out.prover_id \notin DOMAIN load_out.pre
          THEN load_out.res = LoadNone
          ELSE IF load_out.pre[load_out.prover_id].cbor
          THEN load_out.res = LoadSome(load_out.pre[load_out.prover_id].state)
          ELSE load_out.res = LoadErr("CorruptState")

C16_Witness ==
    /\ Loaded
    /\ kv_store.calls[1].ok
    /\ load_out.prover_id \in DOMAIN load_out.pre
    /\ ~load_out.pre[load_out.prover_id].cbor
    /\ load_out.res.tag = "Err"
    /\ ProverId(1) \in DOMAIN load_out.pre
    /\ load_out.pre[ProverId(1)].cbor


\* C17: an add_piece call makes at most one new_staging_sector_access call
\* and at most one write_and_preprocess call; a successful call makes exactly
\* one write; a call failing with InvalidKey, PieceTooLarge or a storage
\* allocation failure makes none; a collaborator call that fails is the last
\* call made and the add_piece call fails.
C17_NoRetriesOneWrite ==
    Called
    => /\ Cardinality(AllocCalls) <= 1
       /\ Cardinality(WriteCalls) <= 1
       /\ Succeeded => Cardinality(WriteCalls) = 1
       /\ last.res.err \in {"InvalidKey", "PieceTooLarge", "StorageAllocationFailed"}
             => WriteCalls = {}
       /\ \A i \in 1..Len(last.calls) :
             ~last.calls[i].ok => i = Len(last.calls) /\ last.res.tag = "Err"

C17_Witness ==
    /\ last.res = Err("WriteFailed")
    /\ Cardinality(AllocCalls) = 1
    /\ Cardinality(WriteCalls) = 1
    /\ ~last.calls[Len(last.calls)].ok

\* C18: when new_staging_sector_access fails, add_piece fails with the
\* allocation error, the sectors map is as it was before the call, and
\* nothing is written or recorded.
C18_FailedAllocationInsertsNothing ==
    (\E i \in AllocCalls : ~last.calls[i].ok)
    => /\ last.res = Err("StorageAllocationFailed")
       /\ PostSectors = PreSectors
       /\ WriteCalls = {}
       /\ Gained = {}

C18_Witness ==
    /\ \E i \in AllocCalls : ~last.calls[i].ok
    /\ last.res = Err("StorageAllocationFailed")
    /\ PreSectors # <<>>
    /\ staged_state.sector_id_nonce # last.pre.sector_id_nonce
    /\ staged_state.sector_id_nonce \notin DOMAIN PostSectors


\* C20: every entry of the sectors map has a sector_id field equal to its
\* key, before and after every add_piece call, and the identifier a
\* successful call returns is the key of the entry whose piece list now ends
\* with the new piece.
C20_SectorIdFieldIsMapKey ==
    /\ \A id \in DOMAIN PostSectors : PostSectors[id].sector_id = id
    /\ Succeeded
          => /\ last.res.id \in DOMAIN PostSectors
             /\ PostSectors[last.res.id].pieces # <<>>
             /\ PostSectors[last.res.id].pieces[Len(PostSectors[last.res.id].pieces)]
                   = PieceMetadata(last.piece_key, last.piece_len)

C20_Witness ==
    /\ Succeeded
    /\ last.res.id \in ProvisionedBy(last.calls)
    /\ last.res.id # ZeroId
    /\ Cardinality(DOMAIN PostSectors) >= 2
    /\ PostSectors[last.res.id].sector_id = last.res.id


-----------------------------------------------------------------------------
\* two add_piece calls on one StagedState, each split between the placement
\* decision (lines 19-40) and the write and append (lines 45-71)

\* lines 19-40 of add_piece: every way the call can reach line 45 or fail
\* before it, with the destination in res
DecideOutcomes(state, piece_key, piece_bytes_len) ==
    UNION {IF id.tag # "Ok" THEN {Step(state, <<>>, id)}
           ELSE LET state1 == [state EXCEPT !.sector_id_nonce = id.id]
                IN  UNION {IF opt.tag # "Ok" THEN {Step(state1, <<>>, opt)}
                           ELSE {Destination(state1, opt, alloc) :
                                    alloc \in AllocOutcomes(state1.sector_id_nonce)} :
                              opt \in {compute_destination_sector_id(
                                           Candidates(state1.sectors, order), SectorMax,
                                           piece_bytes_len, overflow_checks) :
                                           order \in IterOrders(state1.sectors),
                                           overflow_checks \in BOOLEAN}} :
              id \in {get_sectorid_from_cid(piece_key, overflow_checks) :
                         overflow_checks \in BOOLEAN}}

InitRace ==
    /\ staged_state \in InitStagedStates
    /\ last = NoCall(staged_state)
    /\ ncalls = 0
    /\ cid_in = NoCid
    /\ cid_out = NotRun
    /\ place_in = NoPlace
    /\ place_out = NotRun
    /\ history = NoHistory(staged_state)
    /\ kv_store = NoStore
    /\ load_out = NoLoad
    /\ race = NoRace

\* a call runs lines 19-40 on the shared state
RaceDecide(p) ==
    /\ race.procs[p].pc = "idle"
    /\ \E piece_key \in PieceKeys, piece_bytes_len \in PieceLens :
          \E d \in DecideOutcomes(staged_state, piece_key, piece_bytes_len) :
              /\ staged_state' = d.state
              /\ race' = [procs |-> [race.procs EXCEPT ![p] =
                                        [pc |-> IF d.res.tag = "Ok" THEN "decided" ELSE "done",
                                         piece_key |-> piece_key,
                                         piece_len |-> piece_bytes_len,
                                         calls |-> d.calls, res |-> d.res]],
                          overlapped |-> race.overlapped
                                         \/ \E q \in Procs \ {p} : race.procs[q].pc = "decided"]
    /\ UNCHANGED <<last, ncalls, history, cidVars, placeVars, loadVars>>

\* the call runs lines 45-71 on the shared state as it is by then
RaceCommit(p) ==
    /\ race.procs[p].pc = "decided"
    /\ \E wr \in WriteOutcomes(race.procs[p].piece_len) :
          LET c == race.procs[p]
              out == WriteAndRecord(staged_state, c.calls, c.res.id, c.piece_key, c.piece_len, wr)
          IN  /\ staged_state' = out.state
              /\ race' = [race EXCEPT !.procs[p] = [c EXCEPT !.pc = "done",
                                                             !.calls = out.calls,
                                                             !.res = out.res]]
    /\ UNCHANGED <<last, ncalls, history, cidVars, placeVars, loadVars>>

NextRace == \E p \in Procs : RaceDecide(p) \/ RaceCommit(p)

SpecRace == InitRace /\ [][NextRace]_vars

Overfull == {id \in DOMAIN staged_state.sectors : Occupancy(staged_state.sectors[id]) > SectorMax}

\* C19: a sector's occupancy ends above max_unsealed_bytes_per_sector only
\* when one call took its placement decision while the other was between
\* its decision and its append, and both calls appended to that sector; when
\* each call runs from decision to append with no decision in between, no
\* sector is ever above the capacity.
C19_OverfillOnlyWhenInterleaved ==
    \A id \in Overfull :
        /\ race.overlapped
        /\ \A p \in Procs : race.procs[p].pc = "done" /\ race.procs[p].res = Ok(id)

\* both calls chose the Pending sector of KeyB for a piece that filled what
\* was left of it, and the sector ends above the capacity
C19_Witness ==
    /\ race.overlapped
    /\ IdOf(KeyB) \in Overfull
    /\ \A p \in Procs : /\ race.procs[p].res = Ok(IdOf(KeyB))
                        /\ race.procs[p].piece_len = SectorMax - 1
                        /\ race.procs[p].calls # <<>>
                        /\ \A i \in 1..Len(race.procs[p].calls) :
                              race.procs[p].calls[i].op = "write_and_preprocess"

====
